---- MODULE Spec2Model ----
(***************************************************************************)
(* Kubeseal plugin (src/Kubeseal/kubeseal.py): the encrypt and decrypt     *)
(* text commands of one view, their prompt flow, their worker threads and  *)
(* the callbacks they schedule on the UI thread.                           *)
(*                                                                         *)
(* Text is a sequence of one-character strings.  A TextCommand object is   *)
(* created once per view, so the fields assigned through self. (settings,  *)
(* regions, namespace, ...) are shared by all invocations on the view.     *)
(***************************************************************************)
EXTENDS Integers, Sequences, FiniteSets, TLC

\* ------------------------------------------------------------------ bounds
MaxInv == 2            \* command invocations in one behaviour
MaxUserActions == 2    \* selections, edits and settings changes the user makes meanwhile
MaxLines == 4          \* lines of a document given to extract_metadata_from_file

\* -------------------------------------------------------------------- text
None == <<"None">>     \* Python's None (no text holds the character "None")

Min(a, b) == IF a <= b THEN a ELSE b
Max(a, b) == IF a >= b THEN a ELSE b

\* re's \s on the characters of the model
IsSpace(c) == c \in {" ", "\t", "\n"}

\* re's [a-zA-Z] on the characters of the model
IsAlpha(c) ==
    c \in {"a", "c", "d", "e", "m", "n", "p", "s", "t", "x", "y", "z", "E", "F", "P"}

\* s[a..b], empty when a > b
Slice(s, a, b) == SubSeq(s, a, b)

\* index of the first character at or after k that is not whitespace (Len+1 if none)
RECURSIVE SkipSpaces(_, _)
SkipSpaces(s, k) ==
    IF k > Len(s) THEN Len(s) + 1
    ELSE IF IsSpace(s[k]) THEN SkipSpaces(s, k + 1) ELSE k

\* index of the first whitespace character at or after k (Len+1 if none)
RECURSIVE SkipNonSpaces(_, _)
SkipNonSpaces(s, k) ==
    IF k > Len(s) THEN Len(s) + 1
    ELSE IF IsSpace(s[k]) THEN k ELSE SkipNonSpaces(s, k + 1)

\* index of the last character that is not whitespace (0 if none)
RECURSIVE LastNonSpace(_, _)
LastNonSpace(s, k) ==
    IF k < 1 THEN 0
    ELSE IF IsSpace(s[k]) THEN LastNonSpace(s, k - 1) ELSE k

\* str.strip()
Strip(s) == Slice(s, SkipSpaces(s, 1), LastNonSpace(s, Len(s)))

\* str.split('\n'): the lines of s, without their line breaks
RECURSIVE SplitFrom(_, _, _)
SplitFrom(s, k, cur) ==
    IF k > Len(s) THEN <<cur>>
    ELSE IF s[k] = "\n" THEN <<cur>> \o SplitFrom(s, k + 1, <<>>)
    ELSE SplitFrom(s, k + 1, Append(cur, s[k]))

SplitLines(s) == SplitFrom(s, 1, <<>>)

\* str.replace(old, new) for a one-character old
RECURSIVE ReplaceChar(_, _, _)
ReplaceChar(s, old, new) ==
    IF s = <<>> THEN <<>>
    ELSE (IF Head(s) = old THEN new ELSE <<Head(s)>>) \o ReplaceChar(Tail(s), old, new)

\* whether lit occurs in s at index k
HasAt(s, k, lit) ==
    /\ k + Len(lit) - 1 <= Len(s)
    /\ \A j \in 1..Len(lit) : s[k + j - 1] = lit[j]

\* whether lit occurs in s as a contiguous run
Contains(s, lit) == \E k \in 1..(Len(s) + 1) : HasAt(s, k, lit)

\* ------------------------------------------------- extract_metadata_from_file
MetadataKey == <<"m", "e", "t", "a", "d", "a", "t", "a", ":">>
NamespaceKey == <<"n", "a", "m", "e", "s", "p", "a", "c", "e", ":">>
NameKey == <<"n", "a", "m", "e", ":">>

MatchMetadataPrefix(line) == HasAt(line, SkipSpaces(line, 1), MetadataKey)

\* re.match(r'^\s*metadata:\s*$', line)
MatchMetadata(line) ==
    LET k == SkipSpaces(line, 1)
    IN /\ HasAt(line, k, MetadataKey)
       /\ SkipSpaces(line, k + Len(MetadataKey)) = Len(line) + 1

\* re.match(r'^\s*<key>\s*([^\s\n]+)', line).group(1).strip(), None without a match
MatchValue(line, key) ==
    LET k == SkipSpaces(line, 1)
        j == SkipSpaces(line, k + Len(key))
    IN IF HasAt(line, k, key) /\ j <= Len(line)
       THEN Strip(Slice(line, j, SkipNonSpaces(line, j) - 1))
       ELSE None

\* re.match(r'^[a-zA-Z]', line)
MatchTopLevel(line) == Len(line) >= 1 /\ IsAlpha(line[1])

\* one turn of the loop over the lines; st = [in_metadata, namespace, secret_name]
ScanLine(st, line) ==
    IF MatchMetadata(line) THEN [st EXCEPT !.in_metadata = TRUE]
    ELSE LET inm == st.in_metadata /\ ~MatchTopLevel(line)
             ns == MatchValue(line, NamespaceKey)
             nm == MatchValue(line, NameKey)
         IN [in_metadata |-> inm,
             namespace |-> IF inm /\ ns # None THEN ns ELSE st.namespace,
             secret_name |-> IF inm /\ nm # None THEN nm ELSE st.secret_name]

RECURSIVE ScanLines(_, _)
ScanLines(st, lines) ==
    IF lines = <<>> THEN st ELSE ScanLines(ScanLine(st, Head(lines)), Tail(lines))

\* the pair <<namespace, secret_name>> the method returns for the buffer text
extract_metadata_from_file(content) ==
    LET st == ScanLines([in_metadata |-> FALSE, namespace |-> None, secret_name |-> None],
                        SplitLines(content))
    IN <<st.namespace, st.secret_name>>

TruthyAlways(v) == TRUE

\* Python truth of an optional string
Truthy(v) == v # None /\ v # <<>>

\* ------------------------------------------------------------ inputs
\* the documents a behaviour starts from: "xy z" and, below it, a metadata block
DocPlain == <<"x", "y", " ", "z">>
DocMeta ==
    <<"x", "y", " ", "z", "\n",
      "m", "e", "t", "a", "d", "a", "t", "a", ":", "\n",
      " ", "n", "a", "m", "e", ":", "s", "\n",
      " ", "n", "a", "m", "e", "s", "p", "a", "c", "e", ":", "n">>
Docs == {DocPlain, DocMeta}

\* the selections the user makes: a Region is <<a, b>>, reversed when a > b
SelChoices ==
    { << <<2, 2>> >>,
      << <<0, 2>> >>,
      << <<4, 3>> >>,
      << <<0, 2>>, <<3, 4>> >> }

\* the contents the user gives Kubeseal.sublime-settings
SettingsChoices ==
    { [cert_path |-> "", private_key_path |-> "", decrypt_output |-> "new_tab"],
      [cert_path |-> "/c1", private_key_path |-> "/k1", decrypt_output |-> "inline"],
      [cert_path |-> "/c2", private_key_path |-> "/k2", decrypt_output |-> "popup"],
      [cert_path |-> "/gone", private_key_path |-> "/gone", decrypt_output |-> "new_tab"] }

\* the files os.path.exists finds
ExistingFiles == {"/c1", "/c2", "/k1", "/k2"}

\* what the user types into an input panel
PromptEntries == { <<" ">>, <<" ", "<", "s", ">">> }

\* what the external tool answers: (stdout, stderr, returncode)
EncOutcomes ==
    { [out |-> <<" ", "E", "\n">>, err |-> <<>>, rc |-> 0],
      [out |-> <<>>, err |-> <<"e">>, rc |-> 1] }
DecOutcomes ==
    { [out |-> <<"<", "s", ">", "\n">>, err |-> <<>>, rc |-> 0],
      [out |-> <<>>, err |-> <<"e">>, rc |-> 1] }

\* the message of the exception Popen raises when the tool cannot be started
RaisedMessage == <<"ENOENT">>

\* ------------------------------------------------------------- the editor
Begin(r) == Min(r[1], r[2])          \* Region.begin()
End(r) == Max(r[1], r[2])            \* Region.end()
Empty(r) == r[1] = r[2]              \* Region.empty()

\* view.substr(region), offsets counted from 0
Substr(buf, r) == Slice(buf, Min(Begin(r), Len(buf)) + 1, Min(End(r), Len(buf)))

\* view.replace(edit, Region(b, e), text): the region is clamped to the buffer
ReplaceRange(buf, b, e, text) ==
    LET lo == Min(Min(b, e), Len(buf))
        hi == Min(Max(b, e), Len(buf))
    IN Slice(buf, 1, lo) \o text \o Slice(buf, hi + 1, Len(buf))

\* where the editor moves a selection point when [b, e) is replaced by n characters
AdjustPoint(p, b, e, n) ==
    IF p <= b THEN p
    ELSE IF p >= e THEN p - (e - b) + n
    ELSE b + n

AdjustSel(s, b, e, n) ==
    [k \in 1..Len(s) |-> <<AdjustPoint(s[k][1], b, e, n), AdjustPoint(s[k][2], b, e, n)>>]

ValidSel(s, buf) == \A k \in 1..Len(s) : s[k][1] <= Len(buf) /\ s[k][2] <= Len(buf)

\* ---------------------------------------------------------------- state
VARIABLES
    buffer,     \* the text of the view
    sel,        \* view.sel(): the selection, a sequence of Regions
    settings,   \* Kubeseal.sublime-settings as stored
    encSelf,    \* the fields of the view's KubesealEncryptCommand object
    decSelf,    \* the fields of the view's KubesealDecryptCommand object
    panel,      \* the window's input panel and the callback it holds
    uiQueue,    \* callbacks given to sublime.set_timeout, not yet run
    wk,         \* per invocation: its worker thread, locals and process
    dialogs,    \* per invocation: the error dialogs it has shown, in order
    status,     \* the status bar's message
    tabs,       \* per invocation: the tabs it has opened
    popups,     \* per invocation: the popups it has shown
    replaces,   \* per invocation: the kubeseal_replace_text commands it has run
    inv,        \* per invocation: what it has done so far (history)
    nInv,       \* invocations so far
    nUser,      \* what the user has done meanwhile, counted
    returned    \* what extract_metadata_from_file returned when called on its own

vars ==
    <<buffer, sel, settings, encSelf, decSelf, panel, uiQueue, wk, dialogs, status,
      tabs, popups, replaces, inv, nInv, nUser, returned>>

Invs == 1..MaxInv

\* a local name or attribute that holds no value
Unbound == <<"unbound">>

\* the settings field of a command object before run has assigned it
NoSettings ==
    [cert_path |-> "unset", private_key_path |-> "unset", timeout |-> 30,
     decrypt_output |-> "unset"]

\* no captured region yet
NoCap == [region |-> <<0, 0>>, text |-> <<>>]

NoPanel == [cmd |-> "none", step |-> "none", inv |-> 0]

NoWorker ==
    [pc |-> "none", thread |-> "none", text |-> <<>>, namespace |-> <<>>,
     secret_name |-> <<>>, cmd |-> <<>>, stdin |-> <<>>, proc |-> "none", launches |-> 0, e |-> Unbound]

NoInv ==
    [kind |-> "none", stage |-> "idle", prompts |-> <<>>, entries |-> <<>>,
     workers |-> 0, resolved |-> FALSE, alone |-> TRUE, cap |-> NoCap, ran |-> NoSettings,
     invoked |-> NoCap, meta |-> <<Unbound, Unbound>>]

\* get_settings(): the stored values, with the default of each key
get_settings ==
    [cert_path |-> settings.cert_path,
     private_key_path |-> settings.private_key_path,
     timeout |-> 30,
     decrypt_output |-> settings.decrypt_output]

PathExistsAlways(path) == TRUE

\* os.path.exists(path)
PathExists(path) == path \in ExistingFiles

\* show_error(message) called on thread `on` for invocation i
show_error(i, message, on) ==
    dialogs' = [dialogs EXCEPT ![i] = Append(@,
                   [msg |-> <<"Kubeseal Error: ">> \o message, on |-> on,
                    proc |-> wk[i].proc])]

\* show_status(message) called on thread `on`
StatusText(message) == [msg |-> <<"Kubeseal: ">> \o message, on |-> "ui", proc |-> "none"]

\* the same, from a callback that runs on thread `on` for invocation i
StatusFrom(i, message, on) ==
    [msg |-> <<"Kubeseal: ">> \o message, on |-> on, proc |-> wk[i].proc]

\* the stages in which an invocation still has something to do
InFlight == {"prompt_ns", "prompt_name", "working"}

\* the "has_selection" loops of run: whether some region of the selection is non-empty
HasSelection == \E k \in 1..Len(sel) : ~Empty(sel[k])

\* the first non-empty region of the selection (run of the decrypt command)
FirstSelected ==
    sel[CHOOSE k \in 1..Len(sel) : ~Empty(sel[k]) /\ \A j \in 1..(k - 1) : Empty(sel[j])]

\* history: the first non-empty region and its text as the buffer holds them now
Selected ==
    IF HasSelection THEN [region |-> FirstSelected, text |-> Substr(buffer, FirstSelected)]
    ELSE NoCap

\* history: invocation i starts; it and the invocations under way overlap
Started(h, i, kind, s) ==
    [j \in Invs |->
        IF j = i
        THEN [h[j] EXCEPT !.kind = kind, !.ran = s, !.invoked = Selected,
                          !.meta = extract_metadata_from_file(buffer),
                          !.alone = \A k \in Invs : h[k].stage \notin InFlight]
        ELSE IF h[j].stage \in InFlight THEN [h[j] EXCEPT !.alone = FALSE] ELSE h[j]]

\* history: the user edits the buffer under the invocations under way
Disturbed(h) ==
    [j \in Invs |-> IF h[j].stage \in InFlight THEN [h[j] EXCEPT !.alone = FALSE] ELSE h[j]]

CertConfiguredAlways(s) == TRUE

\* `if not settings['cert_path']`
CertConfigured(s) == s.cert_path # ""

\* `if not settings['private_key_path']`
KeyConfigured(s) == s.private_key_path # ""

EnteredUntrimmed(entry) == entry

\* namespace.strip() and secret_name.strip(): what the prompt callbacks keep of an entry
Entered(entry) == Strip(entry)

SucceededAlways(return_code) == TRUE

\* `if return_code == 0`
Succeeded(return_code) == return_code = 0

UsePopupUnlessNewTab(s) == s.decrypt_output # "new_tab"

\* `if self.settings['decrypt_output'] == 'popup'`
UsePopup(s) == s.decrypt_output = "popup"

NewRegionsKeepOld(old) == old

\* `self.regions = []`: the list proceed_with_encryption starts from
NewRegions(old) == <<>>

\* the list proceed_with_encryption builds: every non-empty region with its text
RECURSIVE CaptureRegions(_, _)
CaptureRegions(s, buf) ==
    IF s = <<>> THEN <<>>
    ELSE (IF Empty(Head(s)) THEN <<>>
          ELSE << [region |-> Head(s), text |-> Substr(buf, Head(s))] >>)
         \o CaptureRegions(Tail(s), buf)

\* threading.Thread(target=..., args=...).start(): a thread of its own
StartThread(text, namespace, secret_name) ==
    [NoWorker EXCEPT !.pc = "start", !.thread = "worker", !.text = text,
                     !.namespace = namespace, !.secret_name = secret_name]

\* window.show_input_panel: the window has one input panel; showing one closes the
\* panel that is open, whose on_cancel is None
ShowPanel(cmd, step, i) == [cmd |-> cmd, step |-> step, inv |-> i]

\* the history of the invocation whose panel is closed by another panel
ClosePanel(h) ==
    IF panel.cmd # "none" THEN [h EXCEPT ![panel.inv].stage = "cancelled"] ELSE h

\* the plugin is loaded and no command has run
Loaded ==
    /\ encSelf = [settings |-> NoSettings, regions |-> <<>>, namespace |-> Unbound,
                  secret_name |-> Unbound]
    /\ decSelf = [settings |-> NoSettings, selected_encrypted_text |-> Unbound,
                  namespace |-> Unbound, secret_name |-> Unbound]
    /\ panel = NoPanel
    /\ uiQueue = <<>>
    /\ wk = [i \in Invs |-> NoWorker]
    /\ dialogs = [i \in Invs |-> <<>>]
    /\ status = [msg |-> <<>>, on |-> "ui", proc |-> "none"]
    /\ tabs = [i \in Invs |-> <<>>]
    /\ popups = [i \in Invs |-> <<>>]
    /\ replaces = [i \in Invs |-> <<>>]
    /\ inv = [i \in Invs |-> NoInv]
    /\ nInv = 0
    /\ nUser = 0
    /\ returned = <<Unbound, Unbound>>

Init ==
    /\ buffer \in Docs
    /\ sel \in SelChoices
    /\ settings \in SettingsChoices
    /\ Loaded

\* ------------------------------------------------ KubesealEncryptCommand
\* proceed_with_encryption(namespace, secret_name), self0 being the object's fields
\* as the caller left them and h the history so far
proceed_with_encryption(i, self0, h, namespace, secret_name) ==
    LET regions == NewRegions(self0.regions) \o CaptureRegions(sel, buffer)
    IN /\ status' = StatusText(<<"Encrypting...">>)
       /\ encSelf' = [self0 EXCEPT !.regions = regions]
       /\ IF regions # <<>>
          THEN /\ wk' = [wk EXCEPT ![i] = StartThread(regions[1].text, namespace, secret_name)]
               /\ inv' = [h EXCEPT ![i].stage = "working", ![i].workers = @ + 1,
                                   ![i].resolved = TRUE, ![i].cap = Selected]
          ELSE /\ wk' = wk
               /\ inv' = [h EXCEPT ![i].stage = "stalled", ![i].resolved = TRUE]

\* the end of run, on_namespace_entered and on_secret_name_entered with an error
FailWith(i, h, message) ==
    /\ show_error(i, message, "ui")
    /\ inv' = [h EXCEPT ![i].stage = "failed"]

\* KubesealEncryptCommand.run(edit)
EncryptRun ==
    /\ nInv < MaxInv
    /\ LET i == nInv + 1
           s == get_settings
           h == Started(inv, i, "enc", s)
           md == extract_metadata_from_file(buffer)
       IN /\ nInv' = i
          /\ IF ~CertConfigured(s)
             THEN /\ FailWith(i, h, <<"Certificate path not configured. Please set 'cert_path' in settings.">>)
                  /\ UNCHANGED <<encSelf, panel, wk, status>>
             ELSE IF ~PathExists(s.cert_path)
             THEN /\ FailWith(i, h, <<"Certificate file not found: ", s.cert_path>>)
                  /\ UNCHANGED <<encSelf, panel, wk, status>>
             ELSE IF ~HasSelection
             THEN /\ FailWith(i, h, <<"Please select text to encrypt">>)
                  /\ UNCHANGED <<encSelf, panel, wk, status>>
             ELSE IF Truthy(md[1]) /\ Truthy(md[2])
             THEN /\ proceed_with_encryption(i, [encSelf EXCEPT !.settings = s], h, md[1], md[2])
                  /\ UNCHANGED <<panel, dialogs>>
             ELSE /\ encSelf' = [encSelf EXCEPT !.settings = s]
                  /\ status' = StatusText(<<"No metadata found in file, prompting for values...">>)
                  /\ panel' = ShowPanel("enc", "namespace", i)
                  /\ inv' = [ClosePanel(h) EXCEPT ![i].stage = "prompt_ns",
                                                  ![i].prompts = Append(@, "namespace")]
                  /\ UNCHANGED <<wk, dialogs>>
    /\ UNCHANGED <<buffer, sel, settings, decSelf, uiQueue, tabs, popups, replaces, nUser, returned>>

\* KubesealEncryptCommand.on_namespace_entered(namespace)
on_namespace_entered ==
    /\ panel.cmd = "enc" /\ panel.step = "namespace"
    /\ \E entry \in PromptEntries :
         LET i == panel.inv
             ns == Entered(entry)
             h == [inv EXCEPT ![i].entries = Append(@, entry)]
         IN /\ encSelf' = [encSelf EXCEPT !.namespace = ns]
            /\ IF ns = <<>>
               THEN /\ FailWith(i, h, <<"Namespace cannot be empty">>)
                    /\ panel' = NoPanel
               ELSE /\ panel' = ShowPanel("enc", "secret_name", i)
                    /\ inv' = [h EXCEPT ![i].stage = "prompt_name",
                                        ![i].prompts = Append(@, "secret_name")]
                    /\ dialogs' = dialogs
    /\ UNCHANGED <<buffer, sel, settings, decSelf, uiQueue, wk, status, tabs, popups,
                   replaces, nInv, nUser, returned>>

\* KubesealEncryptCommand.on_secret_name_entered(secret_name)
on_secret_name_entered ==
    /\ panel.cmd = "enc" /\ panel.step = "secret_name"
    /\ \E entry \in PromptEntries :
         LET i == panel.inv
             nm == Entered(entry)
             self0 == [encSelf EXCEPT !.secret_name = nm]
             h == [inv EXCEPT ![i].entries = Append(@, entry)]
         IN /\ panel' = NoPanel
            /\ IF nm = <<>>
               THEN /\ FailWith(i, h, <<"Secret name cannot be empty">>)
                    /\ encSelf' = self0
                    /\ UNCHANGED <<wk, status>>
               ELSE /\ proceed_with_encryption(i, self0, h, self0.namespace, self0.secret_name)
                    /\ dialogs' = dialogs
    /\ UNCHANGED <<buffer, sel, settings, decSelf, uiQueue, tabs, popups, replaces,
                   nInv, nUser, returned>>

\* a callback handed to sublime.set_timeout, with the values its lambda closes over
Callback(fn, i, outcome, namespace, secret_name) ==
    [fn |-> fn, inv |-> i, out |-> outcome.out, err |-> outcome.err, rc |-> outcome.rc,
     namespace |-> namespace, secret_name |-> secret_name, region_index |-> 0]

NoOutcome == [out |-> <<>>, err |-> <<>>, rc |-> 0]

\* KubesealReplaceTextCommand.run(edit, region_start, region_end, new_text)
KubesealReplaceText(i, region_start, region_end, new_text, on) ==
    /\ buffer' = ReplaceRange(buffer, region_start, region_end, new_text)
    /\ sel' = AdjustSel(sel, Min(region_start, Len(buffer)), Min(region_end, Len(buffer)),
                        Len(new_text))
    /\ replaces' = [replaces EXCEPT ![i] = Append(@,
                        [region_start |-> region_start, region_end |-> region_end,
                         new_text |-> new_text, on |-> on, proc |-> wk[i].proc])]

\* _handle_encrypt_result(encrypted_text, error, return_code, region_index)
handle_encrypt_result(cb, on) ==
    LET i == cb.inv
    IN IF Succeeded(cb.rc)
       THEN IF cb.region_index + 1 > Len(encSelf.regions)
            THEN \* self.regions[region_index] raises IndexError: the callback ends
                 /\ inv' = [inv EXCEPT ![i].stage = "crashed"]
                 /\ UNCHANGED <<buffer, sel, replaces, status, dialogs, tabs, popups>>
            ELSE /\ KubesealReplaceText(i,
                        Begin(encSelf.regions[cb.region_index + 1].region),
                        End(encSelf.regions[cb.region_index + 1].region),
                        Strip(cb.out), on)
                 /\ status' = StatusFrom(i, <<"Text encrypted successfully">>, on)
                 /\ inv' = [inv EXCEPT ![i].stage = "done"]
                 /\ UNCHANGED <<dialogs, tabs, popups>>
       ELSE /\ show_error(i, <<"Encryption failed: ">> \o cb.err, on)
            /\ inv' = [inv EXCEPT ![i].stage = "failed"]
            /\ UNCHANGED <<buffer, sel, replaces, status, tabs, popups>>

\* lambda: self.show_error("... failed: {}".format(str(e))): e is the name the except
\* clause bound in the worker's frame, unbound again once the clause is left
error_lambda(cb, prefix, on) ==
    LET i == cb.inv
    IN IF wk[i].e = Unbound
       THEN \* str(e) raises NameError: the callback ends
            /\ inv' = [inv EXCEPT ![i].stage = "lost"]
            /\ UNCHANGED <<buffer, sel, replaces, status, dialogs, tabs, popups>>
       ELSE /\ show_error(i, prefix \o wk[i].e, on)
            /\ inv' = [inv EXCEPT ![i].stage = "failed"]
            /\ UNCHANGED <<buffer, sel, replaces, status, tabs, popups>>

\* ------------------------------------------------ KubesealDecryptCommand
\* proceed_with_decryption(namespace, secret_name)
proceed_with_decryption(i, self0, h, namespace, secret_name) ==
    /\ status' = StatusText(<<"Decrypting...">>)
    /\ decSelf' = self0
    /\ wk' = [wk EXCEPT ![i] = StartThread(self0.selected_encrypted_text, namespace, secret_name)]
    /\ inv' = [h EXCEPT ![i].stage = "working", ![i].workers = @ + 1, ![i].resolved = TRUE]

\* KubesealDecryptCommand.run(edit)
DecryptRun ==
    /\ nInv < MaxInv
    /\ LET i == nInv + 1
           s == get_settings
           h == Started(inv, i, "dec", s)
           md == extract_metadata_from_file(buffer)
       IN /\ nInv' = i
          /\ IF ~KeyConfigured(s)
             THEN /\ FailWith(i, h, <<"Private key path not configured. Please set 'private_key_path' in settings.">>)
                  /\ UNCHANGED <<decSelf, panel, wk, status>>
             ELSE IF ~PathExists(s.private_key_path)
             THEN /\ FailWith(i, h, <<"Private key file not found: ", s.private_key_path>>)
                  /\ UNCHANGED <<decSelf, panel, wk, status>>
             ELSE IF ~HasSelection
             THEN /\ FailWith(i, h, <<"Please select encrypted text to decrypt">>)
                  /\ UNCHANGED <<decSelf, panel, wk, status>>
             ELSE LET self0 == [decSelf EXCEPT !.settings = s,
                                   !.selected_encrypted_text = Substr(buffer, FirstSelected)]
                      h0 == [h EXCEPT ![i].cap = Selected]
                  IN IF Truthy(md[1]) /\ Truthy(md[2])
                     THEN /\ proceed_with_decryption(i, self0, h0, md[1], md[2])
                          /\ UNCHANGED <<panel, dialogs>>
                     ELSE /\ decSelf' = self0
                          /\ status' = StatusText(<<"No metadata found in file, prompting for values...">>)
                          /\ panel' = ShowPanel("dec", "namespace", i)
                          /\ inv' = [ClosePanel(h0) EXCEPT ![i].stage = "prompt_ns",
                                                           ![i].prompts = Append(@, "namespace")]
                          /\ UNCHANGED <<wk, dialogs>>
    /\ UNCHANGED <<buffer, sel, settings, encSelf, uiQueue, tabs, popups, replaces, nUser, returned>>

\* KubesealDecryptCommand.on_decrypt_namespace_entered(namespace)
on_decrypt_namespace_entered ==
    /\ panel.cmd = "dec" /\ panel.step = "namespace"
    /\ \E entry \in PromptEntries :
         LET i == panel.inv
             ns == Entered(entry)
             h == [inv EXCEPT ![i].entries = Append(@, entry)]
         IN /\ decSelf' = [decSelf EXCEPT !.namespace = ns]
            /\ IF ns = <<>>
               THEN /\ FailWith(i, h, <<"Namespace cannot be empty">>)
                    /\ panel' = NoPanel
               ELSE /\ panel' = ShowPanel("dec", "secret_name", i)
                    /\ inv' = [h EXCEPT ![i].stage = "prompt_name",
                                        ![i].prompts = Append(@, "secret_name")]
                    /\ dialogs' = dialogs
    /\ UNCHANGED <<buffer, sel, settings, encSelf, uiQueue, wk, status, tabs, popups,
                   replaces, nInv, nUser, returned>>

\* KubesealDecryptCommand.on_decrypt_secret_name_entered(secret_name)
on_decrypt_secret_name_entered ==
    /\ panel.cmd = "dec" /\ panel.step = "secret_name"
    /\ \E entry \in PromptEntries :
         LET i == panel.inv
             nm == Entered(entry)
             self0 == [decSelf EXCEPT !.secret_name = nm]
             h == [inv EXCEPT ![i].entries = Append(@, entry)]
         IN /\ panel' = NoPanel
            /\ IF nm = <<>>
               THEN /\ FailWith(i, h, <<"Secret name cannot be empty">>)
                    /\ decSelf' = self0
                    /\ UNCHANGED <<wk, status>>
               ELSE /\ proceed_with_decryption(i, self0, h, self0.namespace, self0.secret_name)
                    /\ dialogs' = dialogs
    /\ UNCHANGED <<buffer, sel, settings, encSelf, uiQueue, tabs, popups, replaces,
                   nInv, nUser, returned>>

\* _create_sealed_secret_yaml(encrypted_text, namespace, secret_name): the template
\* with its three fields filled in
create_sealed_secret_yaml(encrypted_text, namespace, secret_name) ==
    <<"apiVersion: bitnami.com/v1alpha1\nkind: SealedSecret\nmetadata:\n  name: ">>
    \o secret_name \o <<"\n  namespace: ">> \o namespace
    \o <<"\nspec:\n  encryptedData:\n    data: ">> \o encrypted_text
    \o <<"\n  template:\n    metadata:\n      name: ">> \o secret_name
    \o <<"\n      namespace: ">> \o namespace \o <<"\n">>

EscapeMarkupOpeningOnly(content) == ReplaceChar(content, "<", <<"&", "l", "t", ";">>)

\* content.replace('<', '&lt;').replace('>', '&gt;')
EscapeMarkup(content) ==
    ReplaceChar(ReplaceChar(content, "<", <<"&", "l", "t", ";">>), ">", <<"&", "g", "t", ";">>)

\* the text _show_in_popup formats: the fixed markup around header and content
PopupContent(content, namespace, secret_name) ==
    <<"<body>", "<style>...</style>", "<div class=\"header\">", "Decrypted Secret: ">>
    \o namespace \o <<"/">> \o secret_name
    \o <<"</div>", "<div class=\"content\">">>
    \o EscapeMarkup(content)
    \o <<"</div>", "</body>">>

\* _show_in_new_tab(content, namespace, secret_name)
show_in_new_tab(i, content, namespace, secret_name, on) ==
    /\ tabs' = [tabs EXCEPT ![i] = Append(@,
                  [name |-> <<"Decrypted Secret: ">> \o namespace \o <<"/">> \o secret_name,
                   syntax |-> "Packages/YAML/YAML.sublime-syntax",
                   content |-> content, on |-> on, proc |-> wk[i].proc])]
    /\ popups' = popups

\* _show_in_popup(content, namespace, secret_name)
show_in_popup(i, content, namespace, secret_name, on) ==
    /\ popups' = [popups EXCEPT ![i] = Append(@,
                    [html |-> PopupContent(content, namespace, secret_name),
                     on |-> on, proc |-> wk[i].proc])]
    /\ tabs' = tabs

\* _handle_decrypt_result(decrypted_output, error, return_code, namespace, secret_name)
handle_decrypt_result(cb, on) ==
    LET i == cb.inv
    IN IF Succeeded(cb.rc)
       THEN /\ IF UsePopup(decSelf.settings)
               THEN show_in_popup(i, cb.out, cb.namespace, cb.secret_name, on)
               ELSE show_in_new_tab(i, cb.out, cb.namespace, cb.secret_name, on)
            /\ status' = StatusFrom(i, <<"Decryption completed - check new tab/popup">>, on)
            /\ inv' = [inv EXCEPT ![i].stage = "done"]
            /\ UNCHANGED <<buffer, sel, replaces, dialogs>>
       ELSE /\ show_error(i, <<"Decryption failed: ">> \o cb.err, on)
            /\ inv' = [inv EXCEPT ![i].stage = "failed"]
            /\ UNCHANGED <<buffer, sel, replaces, status, tabs, popups>>

\* ------------------------------------------------- threads and callbacks
\* what a callback may change: the state the editor owns
editorVars == <<buffer, sel, replaces, status, dialogs, tabs, popups, inv>>

\* running a scheduled callback on thread `on`
RunCallback(cb, on) ==
    CASE cb.fn = "enc_result" -> handle_encrypt_result(cb, on)
      [] cb.fn = "enc_error" -> error_lambda(cb, <<"Encryption failed: ">>, on)
      [] cb.fn = "dec_result" -> handle_decrypt_result(cb, on)
      [] cb.fn = "dec_error" -> error_lambda(cb, <<"Decryption failed: ">>, on)

ScheduleRunsAtOnce(cb) ==
    /\ RunCallback(cb, "worker")
    /\ uiQueue' = uiQueue

\* sublime.set_timeout(callback, 0): the callback is queued for the UI thread
Schedule(cb) ==
    /\ uiQueue' = Append(uiQueue, cb)
    /\ UNCHANGED editorVars

\* the except clause of _encrypt_async and _decrypt_async: e is bound and the error
\* lambda scheduled; the clause is left in a later step
EnterExcept(i, fn) ==
    /\ wk' = [wk EXCEPT ![i].pc = "except", ![i].e = RaisedMessage]
    /\ Schedule(Callback(fn, i, NoOutcome, wk[i].namespace, wk[i].secret_name))

\* the thread's target has returned: its locals are gone
Ended(w) ==
    [NoWorker EXCEPT !.pc = "end", !.thread = w.thread, !.proc = w.proc,
                     !.launches = w.launches]

LeaveExceptAndRetry(i) ==
    /\ wk[i].pc = "except"
    /\ wk' = [wk EXCEPT ![i].pc = "start"]
    /\ UNCHANGED <<uiQueue, editorVars>>

\* the worker leaves the except clause: Python unbinds e
LeaveExcept(i) ==
    /\ wk[i].pc = "except"
    /\ wk' = [wk EXCEPT ![i] = Ended(@)]
    /\ UNCHANGED <<uiQueue, editorVars>>

\* subprocess.Popen(cmd, ...): the process starts, or Popen raises
Launch(i, cmd, stdin, errfn) ==
    \/ /\ wk' = [wk EXCEPT ![i].pc = "comm", ![i].cmd = cmd, ![i].stdin = stdin,
                           ![i].proc = "running", ![i].launches = @ + 1]
       /\ UNCHANGED <<uiQueue, editorVars>>
    \/ EnterExcept(i, errfn)

\* process.communicate(input=...) returns when the process has ended; the set_timeout
\* that follows it
Communicate(i, outcomes, fn) ==
    \E o \in outcomes :
      /\ wk' = [wk EXCEPT ![i] = Ended([@ EXCEPT !.proc = "exited"])]
      /\ Schedule(Callback(fn, i, o, wk[i].namespace, wk[i].secret_name))

\* _encrypt_async(text, namespace, secret_name, region_index), step by step
encrypt_async(i) ==
    /\ inv[i].kind = "enc"
    /\ \/ /\ wk[i].pc = "start"
          /\ Launch(i, [tool |-> "kubeseal", mode |-> "--raw",
                        cert |-> encSelf.settings.cert_path,
                        namespace |-> wk[i].namespace, name |-> wk[i].secret_name],
                    wk[i].text, "enc_error")
       \/ /\ wk[i].pc = "comm"
          /\ Communicate(i, EncOutcomes, "enc_result")
       \/ LeaveExcept(i)
    /\ UNCHANGED <<settings, encSelf, decSelf, panel, nInv, nUser, returned>>

\* _decrypt_async(encrypted_text, namespace, secret_name), step by step
decrypt_async(i) ==
    /\ inv[i].kind = "dec"
    /\ \/ /\ wk[i].pc = "start"
          /\ Launch(i, [tool |-> "kubeseal", mode |-> "--recovery-unseal",
                        key |-> decSelf.settings.private_key_path],
                    create_sealed_secret_yaml(Strip(wk[i].text), wk[i].namespace,
                                              wk[i].secret_name),
                    "dec_error")
       \/ /\ wk[i].pc = "comm"
          /\ Communicate(i, DecOutcomes, "dec_result")
       \/ LeaveExcept(i)
    /\ UNCHANGED <<settings, encSelf, decSelf, panel, nInv, nUser, returned>>

\* the UI thread runs the callback at the head of its queue
RunUiCallback(fn) ==
    /\ uiQueue # <<>>
    /\ Head(uiQueue).fn = fn
    /\ RunCallback(Head(uiQueue), "ui")
    /\ uiQueue' = Tail(uiQueue)
    /\ UNCHANGED <<settings, encSelf, decSelf, panel, wk, nInv, nUser, returned>>

UiEncryptResult == RunUiCallback("enc_result")
UiEncryptError == RunUiCallback("enc_error")
UiDecryptResult == RunUiCallback("dec_result")
UiDecryptError == RunUiCallback("dec_error")

\* ---------------------------------------------------------------- the user
\* the user changes the selection
UserSelect ==
    /\ nUser < MaxUserActions
    /\ nUser' = nUser + 1
    /\ \E s \in SelChoices : s # sel /\ ValidSel(s, buffer) /\ sel' = s
    /\ UNCHANGED <<buffer, settings, encSelf, decSelf, panel, uiQueue, wk, dialogs, status,
                   tabs, popups, replaces, inv, nInv, returned>>

\* the user types a character after the first one: the caret ends behind it
UserEdit ==
    /\ nUser < MaxUserActions
    /\ Len(buffer) >= 1
    /\ nUser' = nUser + 1
    /\ buffer' = ReplaceRange(buffer, 1, 1, <<"x">>)
    /\ sel' = << <<2, 2>> >>
    /\ inv' = Disturbed(inv)
    /\ UNCHANGED <<settings, encSelf, decSelf, panel, uiQueue, wk, dialogs, status,
                   tabs, popups, replaces, nInv, returned>>

\* the user saves other settings
ChangeSettings ==
    /\ nUser < MaxUserActions
    /\ nUser' = nUser + 1
    /\ \E s \in SettingsChoices : s # settings /\ settings' = s
    /\ UNCHANGED <<buffer, sel, encSelf, decSelf, panel, uiQueue, wk, dialogs, status,
                   tabs, popups, replaces, inv, nInv, returned>>

\* the user closes the input panel with Escape: on_cancel is None
PanelCancel ==
    /\ panel.cmd # "none"
    /\ panel' = NoPanel
    /\ inv' = [inv EXCEPT ![panel.inv].stage = "cancelled"]
    /\ UNCHANGED <<buffer, sel, settings, encSelf, decSelf, uiQueue, wk, dialogs, status,
                   tabs, popups, replaces, nInv, nUser, returned>>

Next ==
    \/ EncryptRun
    \/ on_namespace_entered
    \/ on_secret_name_entered
    \/ DecryptRun
    \/ on_decrypt_namespace_entered
    \/ on_decrypt_secret_name_entered
    \/ \E i \in Invs : encrypt_async(i)
    \/ \E i \in Invs : decrypt_async(i)
    \/ UiEncryptResult
    \/ UiEncryptError
    \/ UiDecryptResult
    \/ UiDecryptError
    \/ UserSelect
    \/ UserEdit
    \/ ChangeSettings
    \/ PanelCancel

Spec == Init /\ [][Next]_vars

\* --------------------------------------------------------------- claims
\* the step in which the UI thread runs the callback fn at the head of its queue
RunsHead(fn) == uiQueue # <<>> /\ Head(uiQueue).fn = fn /\ uiQueue' = Tail(uiQueue)

LastOf(q) == q[Len(q)]

\* C1: an encrypt invoked while cert_path is empty ends at once with the
\* "Certificate path not configured" dialog, shown before any process exists; it
\* shows no prompt, starts no worker, schedules nothing and replaces nothing.
C1_EmptyCertPathFails ==
    \A i \in Invs :
        (inv[i].kind = "enc" /\ inv[i].ran.cert_path = "") =>
            /\ inv[i].stage = "failed"
            /\ Len(dialogs[i]) = 1
            /\ dialogs[i][1].msg =
                 <<"Kubeseal Error: ",
                   "Certificate path not configured. Please set 'cert_path' in settings.">>
            /\ dialogs[i][1].proc = "none"
            /\ inv[i].prompts = <<>>
            /\ panel.inv # i
            /\ inv[i].workers = 0
            /\ wk[i] = NoWorker
            /\ \A k \in 1..Len(uiQueue) : uiQueue[k].inv # i
            /\ replaces[i] = <<>>

C1_Witness ==
    \E i \in Invs :
        inv[i].kind = "enc" /\ inv[i].ran.cert_path = "" /\ inv[i].stage = "failed"

EscapedChar(c) ==
    IF c = "<" THEN <<"&", "l", "t", ";">>
    ELSE IF c = ">" THEN <<"&", "g", "t", ";">> ELSE <<c>>

RECURSIVE EscapedText(_)
EscapedText(s) == IF s = <<>> THEN <<>> ELSE EscapedChar(Head(s)) \o EscapedText(Tail(s))

HasMarkup(s) == \E k \in 1..Len(s) : s[k] \in {"<", ">"}

\* the text between the popup's <div class="content"> and its </div>
ContentElement(html) ==
    LET k == CHOOSE k \in 1..Len(html) : html[k] = "<div class=\"content\">"
    IN Slice(html, k + 1, Len(html) - 2)

WithSpanReplaced(buf, r, text) ==
    Slice(buf, 1, Begin(r)) \o text \o Slice(buf, End(r) + 1, Len(buf))

\* C4: when the result handler of an encrypt runs with return code 0, the buffer
\* becomes the buffer as it was with the span of the first non-empty selection that
\* this invocation captured replaced by the stripped stdout, all else unchanged.
C4_ReplacesOwnSpan ==
    [][(RunsHead("enc_result") /\ Head(uiQueue).rc = 0) =>
          LET cb == Head(uiQueue)
          IN buffer' = WithSpanReplaced(buffer, inv[cb.inv].cap.region, Strip(cb.out))]_vars

\* C5: an encrypt that overlaps no other invocation, with no edit typed meanwhile,
\* replaces its own selection only: when its handler runs with return code 0 the
\* captured span still holds the captured text, the buffer becomes the buffer with
\* that span replaced by the stripped output of its own process, and that is the
\* only replacement it makes.
C5_SequentialReplaceOwnSpan ==
    [][(RunsHead("enc_result") /\ Head(uiQueue).rc = 0 /\ inv[Head(uiQueue).inv].alone) =>
          LET cb == Head(uiQueue)
              i == cb.inv
              cap == inv[i].cap
          IN /\ Substr(buffer, cap.region) = cap.text
             /\ buffer' = WithSpanReplaced(buffer, cap.region, Strip(cb.out))
             /\ Len(replaces'[i]) = 1
             /\ \A j \in Invs \ {i} : replaces'[j] = replaces[j]]_vars

C5_Witness ==
    /\ \A i \in Invs : inv[i].kind = "enc" /\ inv[i].stage = "done" /\ inv[i].alone
    /\ inv[1].cap.text = <<"z">>
    /\ inv[2].cap.text = <<"x", "y">>
    /\ Slice(buffer, 1, 3) = <<"E", " ", "E">>

\* the stages of an invocation that ended in failure
FailedStages == {"failed", "lost", "crashed"}

\* this step is the failure of some invocation: a precondition that does not hold,
\* an empty prompt entry, a result with a non-zero return code, or an error callback
FailureStep ==
    \/ \E i \in Invs : inv[i].stage \notin FailedStages /\ inv'[i].stage \in {"failed", "lost"}
    \/ \E fn \in {"enc_result", "dec_result"} : RunsHead(fn) /\ Head(uiQueue).rc # 0
    \/ RunsHead("enc_error")
    \/ RunsHead("dec_error")

\* C6: a failure leaves no partial success: the failing step changes neither the
\* buffer nor the tabs nor the popups, and an invocation that failed has replaced
\* nothing, opened no tab and shown no popup.
C6_NoPartialSuccess ==
    /\ [](\A i \in Invs :
            inv[i].stage \in {"failed", "lost"} =>
                replaces[i] = <<>> /\ tabs[i] = <<>> /\ popups[i] = <<>>)
    /\ [][FailureStep => (buffer' = buffer /\ replaces' = replaces
                          /\ tabs' = tabs /\ popups' = popups)]_vars

C6_Witness ==
    \E i, j \in Invs :
        /\ inv[i].kind = "enc" /\ inv[i].stage = "failed"
        /\ Len(dialogs[i]) = 1 /\ dialogs[i][1].proc = "exited"
        /\ inv[j].kind = "dec" /\ inv[j].stage = "failed"
        /\ Len(dialogs[j]) = 1 /\ dialogs[j][1].proc = "exited"

\* C7: when launching the tool raised, the callback the worker scheduled shows the
\* error dialog "Encryption failed: <message>" (encrypt) or "Decryption failed:
\* <message>" (decrypt) for that invocation.
C7_ExceptionShowsDialog ==
    [][\A fn \in {"enc_error", "dec_error"} :
          RunsHead(fn) =>
             LET i == Head(uiQueue).inv
                 prefix == IF fn = "enc_error" THEN "Encryption failed: "
                                               ELSE "Decryption failed: "
             IN /\ Len(dialogs'[i]) = Len(dialogs[i]) + 1
                /\ LastOf(dialogs'[i]).msg = <<"Kubeseal Error: ", prefix>> \o RaisedMessage]_vars

\* C8: prompts come in the order namespace, then secret name; an entry that is empty
\* once trimmed ends the invocation with exactly one dialog, "Namespace cannot be
\* empty" for the first prompt and "Secret name cannot be empty" for the second: no
\* prompt follows it, none is shown again, no worker or process starts and nothing
\* is replaced.
C8_PromptFlow ==
    \A i \in Invs :
        /\ inv[i].prompts \in {<<>>, <<"namespace">>, <<"namespace", "secret_name">>}
        /\ Len(inv[i].entries) <= Len(inv[i].prompts)
        /\ \A k \in 1..Len(inv[i].entries) :
              Strip(inv[i].entries[k]) = <<>> =>
                  /\ Len(inv[i].entries) = k
                  /\ Len(inv[i].prompts) = k
                  /\ panel.inv # i
                  /\ inv[i].stage = "failed"
                  /\ Len(dialogs[i]) = 1
                  /\ dialogs[i][1].msg =
                       <<"Kubeseal Error: ",
                         IF k = 1 THEN "Namespace cannot be empty"
                                  ELSE "Secret name cannot be empty">>
                  /\ inv[i].workers = 0
                  /\ wk[i] = NoWorker
                  /\ replaces[i] = <<>> /\ tabs[i] = <<>> /\ popups[i] = <<>>

C8_Witness ==
    \E i, j \in Invs :
        /\ Len(inv[i].entries) = 2 /\ Strip(inv[i].entries[2]) = <<>>
        /\ inv[i].stage = "failed"
        /\ Len(inv[j].entries) = 1 /\ Strip(inv[j].entries[1]) = <<>>
        /\ inv[j].stage = "failed"

\* every call of the editor's API made so far: dialogs, status messages, tabs,
\* popups and replacements
ApiCalls ==
    {status} \cup UNION { {[on |-> q[k].on, proc |-> q[k].proc, msg |-> <<>>] : k \in 1..Len(q)} :
                            q \in UNION { {dialogs[i], tabs[i], popups[i], replaces[i]} : i \in Invs } }

\* a step of a started worker thread
WorkerStep == \E i \in Invs : wk[i].pc # "none" /\ wk'[i] # wk[i]

C10_OneWorkerPerInvocation ==
    \A i \in Invs :
        IF inv[i].resolved
        THEN inv[i].workers = 1 /\ wk[i].pc # "none" /\ wk[i].launches <= 1
        ELSE inv[i].workers = 0 /\ wk[i] = NoWorker

\* C11: overlapping encrypt invocations do not share data: the certificate path in
\* the command line of an invocation's process is the one its own run read from the
\* settings, and every replacement an invocation makes is of the span it captured.
C11_NoCrossInvocationRace ==
    \A i \in Invs :
        inv[i].kind = "enc" =>
            /\ wk[i].pc = "comm" => wk[i].cmd.cert = inv[i].ran.cert_path
            /\ \A k \in 1..Len(replaces[i]) :
                  /\ replaces[i][k].region_start = Begin(inv[i].cap.region)
                  /\ replaces[i][k].region_end = End(inv[i].cap.region)

\* scheduling: a started thread runs on, so the process it awaits terminates; the UI
\* thread runs the callbacks queued for it; the user answers the prompt that is open
Fairness ==
    /\ \A i \in Invs : WF_vars(encrypt_async(i)) /\ WF_vars(decrypt_async(i))
    /\ WF_vars(UiEncryptResult) /\ WF_vars(UiEncryptError)
    /\ WF_vars(UiDecryptResult) /\ WF_vars(UiDecryptError)
    /\ WF_vars(on_namespace_entered) /\ WF_vars(on_secret_name_entered)
    /\ WF_vars(on_decrypt_namespace_entered) /\ WF_vars(on_decrypt_secret_name_entered)

SpecLive == Init /\ [][Next]_vars /\ Fairness

\* C12: every encrypt invocation eventually is Done (span replaced, success status)
\* or Failed (error dialog shown), or its prompt was closed without an answer; it
\* does not stop anywhere else.
C12_EncryptReachesDoneOrFailed ==
    \A i \in Invs :
        (inv[i].kind = "enc") ~>
            \/ inv[i].stage = "done" /\ Len(replaces[i]) = 1
            \/ inv[i].stage = "failed" /\ Len(dialogs[i]) = 1
            \/ inv[i].stage = "cancelled"

\* ------------------------------------- extract_metadata_from_file on its own
\* the lines documents are made of: the start of a metadata block, a namespace and a
\* name line in it, a name line nested deeper (as under labels:), a top-level key,
\* and a metadata key with a value
LineChoices ==
    { <<"m", "e", "t", "a", "d", "a", "t", "a", ":">>,
      <<" ", "n", "a", "m", "e", "s", "p", "a", "c", "e", ":", " ", "n">>,
      <<" ", "n", "a", "m", "e", ":", " ", "s">>,
      <<" ", " ", "n", "a", "m", "e", ":", " ", "t">>,
      <<"s", "p", "e", "c", ":">>,
      <<"m", "e", "t", "a", "d", "a", "t", "a", ":", " ", "x">> }

\* '\n'.join(lines)
RECURSIVE JoinLines(_)
JoinLines(ls) ==
    IF Len(ls) = 1 THEN ls[1] ELSE ls[1] \o <<"\n">> \o JoinLines(Tail(ls))

\* the buffers of one to MaxLines of these lines
ExtractBuffers ==
    { JoinLines(ls) : ls \in UNION { [1..n -> LineChoices] : n \in 1..MaxLines } }

InitExtract ==
    /\ buffer \in ExtractBuffers
    /\ sel = << <<0, 0>> >>
    /\ settings \in {st \in SettingsChoices : st.cert_path = "/c1"}
    /\ Loaded

\* namespace, secret_name = self.extract_metadata_from_file()
Extract ==
    /\ returned = <<Unbound, Unbound>>
    /\ returned' = extract_metadata_from_file(buffer)
    /\ UNCHANGED <<buffer, sel, settings, encSelf, decSelf, panel, uiQueue, wk, dialogs,
                   status, tabs, popups, replaces, inv, nInv, nUser>>

NextExtract == Extract

SpecExtract == InitExtract /\ [][NextExtract]_vars

\* the lines of the buffer, and what the claims say of a line
BufferLines == SplitLines(buffer)

IsMetadataLine(line) == Strip(line) = MetadataKey

StartsAlphabetic(line) == line # <<>> /\ IsAlpha(line[1])

\* the X of a "<key> X" line: the key after optional indentation, then the first run
\* of characters that are not whitespace; None when the line is no such line
ValueOf(line, key) ==
    LET body == Strip(line)
        rest == Strip(Slice(body, Len(key) + 1, Len(body)))
    IN IF HasAt(body, 1, key) /\ rest # <<>>
       THEN Slice(rest, 1, SkipNonSpaces(rest, 1) - 1)
       ELSE None

\* C13: when the buffer has a metadata: line followed, before any line that starts
\* with an alphabetic character, by a 'namespace: X' line and a 'name: Y' line, the
\* function returns exactly <<X, Y>>.
C13_ExtractReturnsBlockValues ==
    returned # <<Unbound, Unbound>> =>
        \A a, b, c \in 1..Len(BufferLines) :
            (/\ IsMetadataLine(BufferLines[a])
             /\ a < b /\ a < c
             /\ \A j \in (a + 1)..Max(b, c) : ~StartsAlphabetic(BufferLines[j])
             /\ ValueOf(BufferLines[b], NamespaceKey) # None
             /\ ValueOf(BufferLines[c], NameKey) # None)
            => returned = <<ValueOf(BufferLines[b], NamespaceKey),
                            ValueOf(BufferLines[c], NameKey)>>

\* C14: the pair the function returns has both values or none.
C14_ExtractBothOrNeither ==
    returned # <<Unbound, Unbound>> => ((returned[1] = None) <=> (returned[2] = None))

\* C15: for a buffer without a metadata: line (optionally indented, nothing after
\* it), the function returns <<None, None>>, whatever other lines the buffer has.
C15_NoMetadataBlockNoValues ==
    (returned # <<Unbound, Unbound>> /\ \A k \in 1..Len(BufferLines) : ~IsMetadataLine(BufferLines[k]))
        => returned = <<None, None>>

C15_Witness ==
    /\ returned = <<None, None>>
    /\ \A k \in 1..Len(BufferLines) : ~IsMetadataLine(BufferLines[k])
    /\ \E k \in 1..Len(BufferLines) : Contains(BufferLines[k], MetadataKey)
    /\ \E k \in 1..Len(BufferLines) : ValueOf(BufferLines[k], NamespaceKey) # None
    /\ \E k \in 1..Len(BufferLines) : ValueOf(BufferLines[k], NameKey) # None

\* C16: an invocation works on the first non-empty selection as it was when the
\* command was invoked: that text is what its worker is given and what its process
\* reads (for decrypt, trimmed and wrapped in the sealed-secret document), and for
\* encrypt that span is the one replaced.
C16_SelectionTakenAtInvocation ==
    \A i \in Invs :
        /\ wk[i].pc = "start" => wk[i].text = inv[i].invoked.text
        /\ (wk[i].pc = "comm" /\ inv[i].kind = "enc") => wk[i].stdin = inv[i].invoked.text
        /\ (wk[i].pc = "comm" /\ inv[i].kind = "dec") =>
              \E ns, nm \in {Strip(e) : e \in PromptEntries} \cup {<<"n">>, <<"s">>} :
                  wk[i].stdin = create_sealed_secret_yaml(Strip(inv[i].invoked.text), ns, nm)
        /\ \A k \in 1..Len(replaces[i]) :
              /\ replaces[i][k].region_start = Begin(inv[i].invoked.region)
              /\ replaces[i][k].region_end = End(inv[i].invoked.region)

\* both values are there and not empty
BothFound(md) == md[1] \notin {None, <<>>} /\ md[2] \notin {None, <<>>}

\* invocation i has run and failed none of the checks of run
PassedChecks(i) ==
    /\ inv[i].kind # "none"
    /\ ~(inv[i].stage = "failed" /\ inv[i].prompts = <<>> /\ inv[i].workers = 0)

\* C17: an invocation that passed its checks and whose buffer yields a namespace and
\* a secret name shows no prompt, and its worker and its process get exactly these
\* two values; an invocation whose buffer does not yield both shows the namespace
\* prompt first and has no worker until two non-empty entries have been given.
C17_ExtractionBeforePrompts ==
    \A i \in Invs :
        PassedChecks(i) =>
            IF BothFound(inv[i].meta)
            THEN /\ inv[i].prompts = <<>> /\ inv[i].entries = <<>> /\ panel.inv # i
                 /\ inv[i].workers = 1
                 /\ wk[i].pc \in {"start", "comm"} =>
                       /\ wk[i].namespace = inv[i].meta[1]
                       /\ wk[i].secret_name = inv[i].meta[2]
                 /\ (wk[i].pc = "comm" /\ inv[i].kind = "enc") =>
                       /\ wk[i].cmd.namespace = inv[i].meta[1]
                       /\ wk[i].cmd.name = inv[i].meta[2]
                 /\ (wk[i].pc = "comm" /\ inv[i].kind = "dec") =>
                       wk[i].stdin = create_sealed_secret_yaml(Strip(wk[i].text),
                                                               inv[i].meta[1], inv[i].meta[2])
            ELSE /\ Len(inv[i].prompts) >= 1 /\ inv[i].prompts[1] = "namespace"
                 /\ IF inv[i].workers = 0
                    THEN wk[i] = NoWorker
                    ELSE /\ Len(inv[i].entries) = 2
                         /\ Strip(inv[i].entries[1]) # <<>>
                         /\ Strip(inv[i].entries[2]) # <<>>

C17_Witness ==
    \E i, j \in Invs :
        /\ inv[i].kind = "enc" /\ BothFound(inv[i].meta) /\ wk[i].pc = "comm"
        /\ wk[i].cmd.namespace = <<"n">> /\ wk[i].cmd.name = <<"s">>
        /\ inv[j].kind = "dec" /\ BothFound(inv[j].meta) /\ wk[j].pc = "comm"

\* the file run needs: the certificate for encrypt, the private key for decrypt
NeededPath(i) ==
    IF inv[i].kind = "enc" THEN inv[i].ran.cert_path ELSE inv[i].ran.private_key_path

\* invocation i has failed in run with this one dialog and nothing else
FailedInRunWith(i, message) ==
    /\ inv[i].stage = "failed"
    /\ dialogs[i] = << [msg |-> <<"Kubeseal Error: ">> \o message, on |-> "ui", proc |-> "none"] >>
    /\ inv[i].prompts = <<>> /\ panel.inv # i
    /\ inv[i].workers = 0 /\ wk[i] = NoWorker
    /\ \A k \in 1..Len(uiQueue) : uiQueue[k].inv # i

\* C18: the checks of run come in a fixed order and the first that fails ends the
\* invocation: a configured path whose file does not exist gives the "file not found"
\* dialog whatever the selection is; a missing selection gives the "please select"
\* dialog when the file exists; either way there is exactly one dialog and no prompt,
\* worker or process.
C18_CheckOrder ==
    \A i \in Invs :
        inv[i].kind # "none" =>
            /\ (NeededPath(i) # "" /\ NeededPath(i) \notin ExistingFiles) =>
                  FailedInRunWith(i,
                      <<IF inv[i].kind = "enc" THEN "Certificate file not found: "
                                               ELSE "Private key file not found: ",
                        NeededPath(i)>>)
            /\ (NeededPath(i) \in ExistingFiles /\ inv[i].invoked = NoCap) =>
                  FailedInRunWith(i,
                      <<IF inv[i].kind = "enc" THEN "Please select text to encrypt"
                                               ELSE "Please select encrypted text to decrypt">>)
            /\ (NeededPath(i) \in ExistingFiles /\ inv[i].invoked # NoCap) =>
                  PassedChecks(i)

C18_Witness ==
    \E i, j \in Invs :
        /\ inv[i].kind = "enc" /\ NeededPath(i) = "/gone" /\ inv[i].invoked = NoCap
        /\ inv[i].stage = "failed"
        /\ inv[j].kind = "dec" /\ NeededPath(j) \in ExistingFiles /\ inv[j].invoked = NoCap
        /\ inv[j].stage = "failed"

\* C19: when the result handler of an encrypt applies a result with return code 0
\* to the region its own invocation captured, that span of the buffer still holds
\* the text that was sent to the tool.
C19_SpanStillHoldsSentText ==
    [][(/\ RunsHead("enc_result")
        /\ Head(uiQueue).rc = 0
        /\ encSelf.regions # <<>>
        /\ encSelf.regions[1] = inv[Head(uiQueue).inv].cap) =>
          LET cap == inv[Head(uiQueue).inv].cap
          IN Substr(buffer, cap.region) = cap.text]_vars

\* the callbacks of invocation i that wait in the UI thread's queue
Queued(i) == {k \in 1..Len(uiQueue) : uiQueue[k].inv = i}

\* whether the callback of invocation i's worker has run
CallbackRan(i) == inv[i].workers = 1 /\ inv[i].stage \in {"done", "failed", "lost", "crashed"}

\* C20: a worker that is launching or awaiting its process has scheduled nothing; a
\* worker past that has scheduled exactly one callback, waiting or already run: the
\* error handler when the launch raised, the result handler otherwise; and every
\* invocation has made at most one of: a replacement, a tab, a popup, an error dialog.
C20_OneCallbackOneEffect ==
    \A i \in Invs :
        /\ wk[i].pc \in {"none", "start", "comm"} => (Queued(i) = {} /\ ~CallbackRan(i))
        /\ wk[i].pc \in {"except", "end"} =>
              /\ Cardinality(Queued(i)) + (IF CallbackRan(i) THEN 1 ELSE 0) = 1
              /\ \A k \in Queued(i) :
                    uiQueue[k].fn = (IF wk[i].launches = 0
                                     THEN (IF inv[i].kind = "enc" THEN "enc_error" ELSE "dec_error")
                                     ELSE (IF inv[i].kind = "enc" THEN "enc_result" ELSE "dec_result"))
        /\ Len(replaces[i]) + Len(tabs[i]) + Len(popups[i]) + Len(dialogs[i]) <= 1

C20_Witness ==
    \E i, j \in Invs :
        /\ wk[i].pc = "end" /\ Queued(i) = {} /\ Len(replaces[i]) = 1 /\ dialogs[i] = <<>>
        /\ wk[j].pc = "except" /\ Queued(j) = {} /\ Len(dialogs[j]) = 1

====
